---- MODULE Spec2Model ----
(***************************************************************************)
(* A model of the batch transfer engine of src/etl_transfer.py and the     *)
(* storage calls of src/database_manager.py it relies on.                  *)
(*                                                                         *)
(* A table is modelled by its rows.  The source table is a sequence of     *)
(* first-column values; row r of the source is the r-th entry.  Every      *)
(* read is "ORDER BY 1 LIMIT l OFFSET o": rows with equal first-column     *)
(* values may come back in any relative order, a fresh choice per query.   *)
(* Every storage call may fail; the number of failures in one behaviour    *)
(* is bounded by MaxFaults.                                                *)
(***************************************************************************)
EXTENDS Integers, Sequences, FiniteSets, TLC

VARIABLES
    cfg,      \* the Config values of the run: mode, drop flag, BATCH_SIZE, MAX_WORKERS, NUMBER_OF_SPLITS
    source,   \* the source table: the first-column value of each row
    target,   \* the target schema and table: existence and the bag of rows held
    segs,     \* the temporary tables of the internal schema, by split number
    pc,       \* the orchestrator's position
    loc,      \* the orchestrator's local variables
    units,    \* the futures of the current worker pool, in submission order
    result,   \* the dictionary the transfer returned, NoResult before
    faults,   \* storage calls that failed so far
    hist      \* history: run number, previous result, what this run did

vars == <<cfg, source, target, segs, pc, loc, units, result, faults, hist>>

(***************************************************************************)
(* Bounds of the model.                                                    *)
(***************************************************************************)
MaxRows == 3
MaxBatch == 2
MaxWorkers == 2
MaxSplits == 2
MaxFaults == 1
MaxWrites == 1

None == -1
NoResult == [kind |-> "none"]
\* row 0 of the target stands for a row it held before the run and the source does not hold
StaleRows == {0}

Min(a, b) == IF a <= b THEN a ELSE b
Max(a, b) == IF a >= b THEN a ELSE b

RowIds == 1..MaxRows
TargetIds == 0..MaxRows

(***************************************************************************)
(* Python's floor division a // b for b # 0.                               *)
(***************************************************************************)
FloorDiv(a, b) == IF b > 0 THEN a \div b ELSE (-a) \div (-b)
PyMod(a, b) == a - b * FloorDiv(a, b)

RECURSIVE SumSeq(_)
SumSeq(s) == IF s = <<>> THEN 0 ELSE Head(s) + SumSeq(Tail(s))

(***************************************************************************)
(* Bags of rows held by the target table.                                  *)
(***************************************************************************)
EmptyBag == [r \in TargetIds |-> 0]
AddRows(bag, S) == [r \in TargetIds |-> bag[r] + (IF r \in S THEN 1 ELSE 0)]
BagSize(bag) == SumSeq([i \in 1..(MaxRows + 1) |-> bag[i - 1]])

(***************************************************************************)
(* The rows of the source table and the answers of an ordered range read.  *)
(***************************************************************************)
SourceRows == 1..Len(source)
FirstCol(r) == source[r]

\* every order "ORDER BY 1" may return the rows T in
Orderings(T) ==
    { p \in [1..Cardinality(T) -> T] :
        /\ \A i, j \in 1..Cardinality(T) : i # j => p[i] # p[j]
        /\ \A i, j \in 1..Cardinality(T) : i < j => FirstCol(p[i]) <= FirstCol(p[j]) }

\* the row sets "SELECT * FROM T ORDER BY 1 LIMIT limit OFFSET offset" may return
read_range(T, offset, limit) ==
    { { p[i] : i \in (offset + 1)..Min(offset + limit, Cardinality(T)) } : p \in Orderings(T) }

\* every order "ORDER BY 1" may return the rows of a temporary table in: the
\* table holds its own copy of the first column, as it was when it was created
TempOrderings(table) ==
    { p \in [1..Cardinality(table.rows) -> table.rows] :
        /\ \A i, j \in 1..Cardinality(table.rows) : i # j => p[i] # p[j]
        /\ \A i, j \in 1..Cardinality(table.rows) :
              i < j => table.keys[p[i]] <= table.keys[p[j]] }

\* a temporary table that is a view of the source: rows deleted there are gone
extract_from_view(table, offset, limit) ==
    { { p[i] : i \in (offset + 1)..Min(offset + limit, Cardinality(table.rows)) } \cap SourceRows :
        p \in TempOrderings(table) }

\* "SELECT * FROM temp_table ORDER BY 1 LIMIT limit OFFSET offset"
extract_from_temp_table(table, offset, limit) ==
    { { p[i] : i \in (offset + 1)..Min(offset + limit, Cardinality(table.rows)) } :
        p \in TempOrderings(table) }

(***************************************************************************)
(* Batch planner: the windows of a table of total_rows rows.               *)
(***************************************************************************)
total_batches_plus_one(total_rows, batch_size) == FloorDiv(total_rows, batch_size) + 1

total_batches(total_rows, batch_size) == FloorDiv(total_rows + batch_size - 1, batch_size)

window_unclamped(batch_num, total_rows, batch_size) ==
    [offset |-> batch_num * batch_size, limit |-> batch_size]

window(batch_num, total_rows, batch_size) ==
    [offset |-> batch_num * batch_size,
     limit  |-> Min(batch_size, total_rows - batch_num * batch_size)]

plan(total_rows, batch_size) ==
    [i \in 1..total_batches(total_rows, batch_size) |-> window(i - 1, total_rows, batch_size)]

(***************************************************************************)
(* Table splitter: the size of each split, and the offset it starts at.    *)
(***************************************************************************)
rows_per_split(total_rows, splits) == FloorDiv(total_rows, splits)
remaining_rows(total_rows, splits) == PyMod(total_rows, splits)

split_limit_inclusive(split_num, total_rows, splits) ==
    IF split_num <= remaining_rows(total_rows, splits)
    THEN rows_per_split(total_rows, splits) + 1
    ELSE rows_per_split(total_rows, splits)

split_limit(split_num, total_rows, splits) ==
    IF split_num < remaining_rows(total_rows, splits)
    THEN rows_per_split(total_rows, splits) + 1
    ELSE rows_per_split(total_rows, splits)

(***************************************************************************)
(* Configurations, source tables and target tables a run may start from.   *)
(***************************************************************************)
BatchSizes == 1..MaxBatch
WorkerCounts == 1..MaxWorkers
SplitCounts == 1..MaxSplits

Configs ==
    { [mode |-> "direct", drop |-> d, B |-> b, W |-> w, S |-> 1] :
        d \in BOOLEAN, b \in BatchSizes, w \in WorkerCounts }
    \cup
    { [mode |-> "split", drop |-> d, B |-> b, W |-> w, S |-> s] :
        d \in BOOLEAN, b \in BatchSizes, w \in WorkerCounts, s \in SplitCounts }

\* first-column values in nondecreasing order: all distinct, or the first two rows tied
Sources ==
    { [i \in 1..n |-> i] : n \in 0..MaxRows } \cup { [i \in 1..n |-> Max(1, i - 1)] : n \in 2..MaxRows }

Targets ==
    { [schema |-> FALSE, exists |-> FALSE, rows |-> EmptyBag],
      [schema |-> TRUE, exists |-> TRUE, rows |-> EmptyBag],
      [schema |-> TRUE, exists |-> TRUE, rows |-> AddRows(EmptyBag, StaleRows)] }

NoTable == [exists |-> FALSE, rows |-> {}, keys |-> <<>>]

LocInit ==
    [source_ok |-> TRUE, target_ok |-> TRUE,
     total_rows |-> 0, temp_table_names |-> <<>>, split_num |-> 0, current_offset |-> 0,
     seg |-> 0, temp_table_rows |-> 0, dropped |-> 0,
     processed_rows |-> 0, successful_batches |-> 0, failed_batches |-> 0,
     total_rows_transferred |-> 0, successful_temp_tables |-> 0, failed_temp_tables |-> 0]

HistInit ==
    [run |-> 1, prev |-> NoResult, prev_clean |-> TRUE, clean |-> TRUE, mutated |-> FALSE,
     dispatched |-> 0, created |-> 0, splits |-> <<>>,
     units_failed |-> 0, ok_rows |-> 0, finished |-> 0,
     failed_step |-> "none", create_failed |-> FALSE,
     drop_failed |-> FALSE, drop_attempts |-> 0, before_cleanup |-> NoResult,
     load_calls |-> 0, seg_started |-> 0, writes |-> 0,
     incremental |-> FALSE, selected |-> FALSE, target_dropped |-> FALSE,
     size_warnings |-> {}, count_warning |-> FALSE, exit_status |-> None,
     seg_results |-> <<>>, leftover |-> {}]

Start ==
    /\ source \in Sources
    /\ target \in Targets
    /\ segs = [k \in 1..MaxSplits |-> NoTable]
    /\ pc = "validate"
    /\ loc = LocInit
    /\ units = <<>>
    /\ result = NoResult
    /\ faults = 0
    /\ hist = HistInit

Init ==
    /\ cfg \in Configs
    /\ Start

\* BATCH_SIZE and NUMBER_OF_SPLITS are whatever integers the environment or the
\* command line holds: nothing checks their sign
ConfigsUnchecked ==
    { [mode |-> "direct", drop |-> d, B |-> b, W |-> w, S |-> 1] :
        d \in BOOLEAN, b \in (-1)..MaxBatch, w \in WorkerCounts }
    \cup
    { [mode |-> "split", drop |-> d, B |-> b, W |-> w, S |-> s] :
        d \in BOOLEAN, b \in (-1)..MaxBatch, w \in WorkerCounts, s \in (-1)..MaxSplits }

InitUnchecked ==
    /\ cfg \in ConfigsUnchecked
    /\ Start

(***************************************************************************)
(* Storage calls that may fail: n outcomes, TRUE for a call that succeeds. *)
(* hist.clean records that no call of the run failed, hist.mutated that a  *)
(* statement changing the source or target database was issued.            *)
(***************************************************************************)
Failed(ok) == Cardinality({ i \in DOMAIN ok : ~ok[i] })
Calls(n) == { ok \in [1..n -> BOOLEAN] : faults + Failed(ok) <= MaxFaults }

Noted(ok) == [hist EXCEPT !.clean = @ /\ Failed(ok) = 0]
Mutated(h) == [h EXCEPT !.mutated = TRUE]

\* hist.failed_step: the first step of the run in which a storage call failed
FailedAt(h, step, failed) ==
    IF failed /\ h.failed_step = "none" THEN [h EXCEPT !.failed_step = step] ELSE h

Note(ok) ==
    /\ faults' = faults + Failed(ok)
    /\ hist' = Noted(ok)

(***************************************************************************)
(* The dictionaries a transfer returns.                                    *)
(***************************************************************************)
FatalResult ==
    [kind |-> "fatal", success |-> FALSE, rows_transferred |-> None, target_rows |-> None,
     processed |-> None, failed |-> None]

EmptyResultAsFailure ==
    [kind |-> "empty", success |-> FALSE, rows_transferred |-> 0, target_rows |-> None,
     processed |-> 0, failed |-> None]

EmptyResult ==
    [kind |-> "empty", success |-> TRUE, rows_transferred |-> 0, target_rows |-> None,
     processed |-> 0, failed |-> None]

FullResult(rows, target_rows, processed, failed) ==
    [kind |-> "full", success |-> (failed = 0), rows_transferred |-> rows,
     target_rows |-> target_rows, processed |-> processed, failed |-> failed]

RaiseKeepsRunning ==
    /\ pc' = pc
    /\ result' = FatalResult

\* the except clause of the transfer: a failure result
Raise ==
    /\ pc' = "failed"
    /\ result' = FatalResult

(***************************************************************************)
(* Step 1: validate_connections probes the source, then the target.        *)
(***************************************************************************)
validate_source_only(source_ok, target_ok) == source_ok

validate_connections(source_ok, target_ok) == source_ok /\ target_ok

Validate ==
    /\ pc = "validate"
    /\ \E ok \in Calls(2) :
        /\ faults' = faults + Failed(ok)
        /\ hist' = FailedAt(Noted(ok), "validate", Failed(ok) > 0)
        /\ loc' = [loc EXCEPT !.source_ok = ok[1], !.target_ok = ok[2]]
        /\ IF validate_connections(ok[1], ok[2])
           THEN pc' = "schema" /\ UNCHANGED result
           ELSE Raise
    /\ UNCHANGED <<cfg, source, target, segs, units>>

(***************************************************************************)
(* Step 2: get_source_schema; an empty column list raises.                 *)
(***************************************************************************)
FetchSchema ==
    /\ pc = "schema"
    /\ \E ok \in Calls(1) :
        /\ faults' = faults + Failed(ok)
        /\ hist' = FailedAt(Noted(ok), "schema", Failed(ok) > 0)
        /\ IF ok[1]
           THEN pc' = "prepare" /\ UNCHANGED result
           ELSE Raise
    /\ UNCHANGED <<cfg, source, target, segs, loc, units>>

(***************************************************************************)
(* Step 3: prepare_target_table, i.e. create_table_if_not_exists: create   *)
(* the schema, drop the table when asked to (a failed drop is logged and   *)
(* ignored), create the table if it is absent.                             *)
(***************************************************************************)
create_schema(t) == [t EXCEPT !.schema = TRUE]
drop_if_exists(t) == [t EXCEPT !.exists = FALSE, !.rows = EmptyBag]
create_if_absent(t) == IF t.exists THEN t ELSE [t EXCEPT !.exists = TRUE, !.rows = EmptyBag]

create_table_if_not_exists(t, drop, schema_ok, drop_ok, create_ok) ==
    IF ~schema_ok THEN t
    ELSE LET t1 == create_schema(t)
             t2 == IF drop /\ drop_ok THEN drop_if_exists(t1) ELSE t1
         IN  IF create_ok THEN create_if_absent(t2) ELSE t2

AfterPrepare == IF cfg.mode = "split" THEN "split" ELSE "count"

PrepareTarget ==
    /\ pc = "prepare"
    /\ \E ok \in Calls(3) :
        /\ ~ok[1] => ok[2] /\ ok[3]
        /\ ~cfg.drop => ok[2]
        /\ faults' = faults + Failed(ok)
        /\ hist' = [FailedAt(Mutated(Noted(ok)), "prepare", Failed(ok) > 0) EXCEPT
                        !.target_dropped = cfg.drop /\ ok[1] /\ ok[2]]
        /\ target' = create_table_if_not_exists(target, cfg.drop, ok[1], ok[2], ok[3])
        /\ IF ok[1] /\ ok[3]
           THEN pc' = (IF cfg.drop THEN AfterPrepare ELSE "truncate") /\ UNCHANGED result
           ELSE Raise
    /\ UNCHANGED <<cfg, source, segs, loc, units>>

truncate_nothing(t) == t

truncate_table(t) == [t EXCEPT !.rows = EmptyBag]

Truncate ==
    /\ pc = "truncate"
    /\ \E ok \in Calls(1) :
        /\ faults' = faults + Failed(ok)
        /\ hist' = FailedAt(Mutated(Noted(ok)), "truncate", Failed(ok) > 0)
        /\ IF ok[1]
           THEN target' = truncate_table(target) /\ pc' = AfterPrepare /\ UNCHANGED result
           ELSE Raise /\ UNCHANGED target
    /\ UNCHANGED <<cfg, source, segs, loc, units>>

(***************************************************************************)
(* get_row_count answers 0 when the query fails.                           *)
(***************************************************************************)
get_row_count(rows, ok) == IF ok THEN rows ELSE 0

(***************************************************************************)
(* Submitting the windows of a table to a fresh pool: one future per       *)
(* window, in window order.  table is 0 for the source table and the split *)
(* number for a temporary table.  The pool starts the futures in           *)
(* submission order, so submitting them in one step loses no behaviour.    *)
(***************************************************************************)
Future(table, w) ==
    [st |-> "queued", table |-> table, offset |-> w.offset, limit |-> w.limit,
     df |-> {}, success |-> FALSE, rows_processed |-> 0, error |-> "none",
     fault |-> "none"]

submit(table, total_rows, batch_size) ==
    [i \in DOMAIN plan(total_rows, batch_size) |-> Future(table, plan(total_rows, batch_size)[i])]

(***************************************************************************)
(* Steps 4 to 6 of the traditional transfer: count the source, return at   *)
(* once when the count is 0, else plan the batches and submit them.        *)
(***************************************************************************)
CountDirect ==
    /\ pc = "count"
    /\ \E ok \in Calls(1) :
        LET total_rows == get_row_count(Len(source), ok[1]) IN
        /\ faults' = faults + Failed(ok)
        /\ loc' = [loc EXCEPT !.total_rows = total_rows, !.processed_rows = 0,
                              !.successful_batches = 0, !.failed_batches = 0]
        /\ IF total_rows = 0
           THEN /\ pc' = "done"
                /\ result' = EmptyResult
                /\ units' = <<>>
                /\ hist' = Noted(ok)
           ELSE IF cfg.B = 0 \/ cfg.W <= 0
           THEN \* ZeroDivisionError of total_batches, ValueError of the pool
                /\ Raise
                /\ units' = <<>>
                /\ hist' = Noted(ok)
           ELSE /\ pc' = "dispatch"
                /\ units' = submit(0, total_rows, cfg.B)
                /\ hist' = [Noted(ok) EXCEPT !.dispatched = @ + Len(units')]
                /\ UNCHANGED result
    /\ UNCHANGED <<cfg, source, target, segs>>

(***************************************************************************)
(* A worker runs process_batch or process_temp_table_batch on the next     *)
(* queued future: first the read.  A failed read ends the unit with        *)
(* success False and 0 rows, an empty read with success True and 0 rows.   *)
(* A unit between its read and its load is "loading": it occupies one of   *)
(* the MAX_WORKERS threads of the pool.                                    *)
(***************************************************************************)
Running == { i \in DOMAIN units : units[i].st = "loading" }
Queued == { i \in DOMAIN units : units[i].st = "queued" }

TableRows(table) == IF table = 0 THEN SourceRows ELSE segs[table].rows
TableExists(table) == table = 0 \/ segs[table].exists

Outcome(u, success, rows_processed) ==
    [u EXCEPT !.st = "finished", !.success = success, !.rows_processed = rows_processed]

Finished(h, u) ==
    [h EXCEPT !.finished = @ + 1,
              !.units_failed = @ + (IF u.success THEN 0 ELSE 1),
              !.ok_rows = @ + (IF u.success THEN u.rows_processed ELSE 0)]

extract_outcome_empty_is_failure(u, ok, df) ==
    IF ~ok THEN [Outcome(u, FALSE, 0) EXCEPT !.error = "exception"]
    ELSE IF df = {} THEN [Outcome(u, FALSE, 0) EXCEPT !.error = "Load failed"]
    ELSE [u EXCEPT !.st = "loading", !.df = df]

extract_outcome(u, ok, df) ==
    IF ~ok THEN [Outcome(u, FALSE, 0) EXCEPT !.error = "exception"]   \* str(e)
    ELSE IF df = {} THEN Outcome(u, TRUE, 0)
    ELSE [u EXCEPT !.st = "loading", !.df = df]

\* PostgreSQL rejects a negative LIMIT or OFFSET
valid_range(offset, limit) == offset >= 0 /\ limit >= 0

\* u.fault: the call of the unit that failed, if one did
Faulted(u, call, failed) == IF failed THEN [u EXCEPT !.fault = call] ELSE u

worker_always_idle(running, max_workers) == TRUE

\* ThreadPoolExecutor(max_workers): a queued future starts when a thread is idle
worker_idle(running, max_workers) == Cardinality(running) < max_workers

ExtractStep(i) ==
    /\ pc = "dispatch"
    /\ i \in Queued
    /\ \A j \in Queued : i <= j
    /\ worker_idle(Running, cfg.W)
    /\ \E ok \in Calls(1) :
        LET read_ok == /\ ok[1]
                       /\ TableExists(units[i].table)
                       /\ valid_range(units[i].offset, units[i].limit)
        IN
        /\ \E df \in IF valid_range(units[i].offset, units[i].limit)
                      THEN IF units[i].table = 0
                           THEN read_range(TableRows(0), units[i].offset, units[i].limit)
                           ELSE extract_from_temp_table(segs[units[i].table],
                                                        units[i].offset, units[i].limit)
                      ELSE {{}} :
            LET u == Faulted(extract_outcome(units[i], read_ok, df), "read", ~read_ok) IN
            /\ units' = [units EXCEPT ![i] = u]
            /\ hist' = IF u.st = "finished" THEN Finished(Noted(ok), u) ELSE Noted(ok)
        /\ faults' = faults + Failed(ok)
    /\ UNCHANGED <<cfg, source, target, segs, pc, loc, result>>

(***************************************************************************)
(* ... then load_batch: the rows read are appended to the target in one    *)
(* transaction.  A failed load ends the unit with success False and the    *)
(* number of rows read.                                                    *)
(***************************************************************************)
load_batch_replace(t, df, ok) ==
    IF ok THEN [t EXCEPT !.exists = TRUE, !.rows = AddRows(EmptyBag, df)] ELSE t

load_batch(t, df, ok) == IF ok THEN [t EXCEPT !.exists = TRUE, !.rows = AddRows(@, df)] ELSE t

load_outcome_ignores_failure(u, ok) == Outcome(u, TRUE, Cardinality(u.df))

load_outcome(u, ok) ==
    [Outcome(u, ok, Cardinality(u.df)) EXCEPT !.error = IF ok THEN "none" ELSE "Load failed"]

LoadStep(i) ==
    /\ pc = "dispatch"
    /\ i \in Running
    /\ \E ok \in Calls(1) :
        LET u == Faulted(load_outcome(units[i], ok[1]), "write", ~ok[1]) IN
        /\ target' = load_batch(target, units[i].df, ok[1])
        /\ units' = [units EXCEPT ![i] = u]
        /\ hist' = [Mutated(Finished(Noted(ok), u)) EXCEPT !.load_calls = @ + 1]
        /\ faults' = faults + Failed(ok)
    /\ UNCHANGED <<cfg, source, segs, pc, loc, result>>

(***************************************************************************)
(* The as_completed loop of the orchestrator: one finished future at a     *)
(* time is added to the counters.                                          *)
(***************************************************************************)
aggregate_drops_failure(l, u) ==
    IF u.success
    THEN [l EXCEPT !.processed_rows = @ + u.rows_processed, !.successful_batches = @ + 1]
    ELSE l

aggregate_all_as_success(l, u) ==
    [l EXCEPT !.processed_rows = @ + u.rows_processed, !.successful_batches = @ + 1]

aggregate(l, u) ==
    IF u.success
    THEN [l EXCEPT !.processed_rows = @ + u.rows_processed, !.successful_batches = @ + 1]
    ELSE [l EXCEPT !.failed_batches = @ + 1]

Aggregate(i) ==
    /\ pc = "dispatch"
    /\ i \in DOMAIN units
    /\ units[i].st = "finished"
    /\ loc' = aggregate(loc, units[i])
    /\ units' = [units EXCEPT ![i].st = "aggregated"]
    /\ UNCHANGED <<cfg, source, target, segs, pc, result, faults, hist>>

NoneQueued == Queued = {}

AllAggregated == \A i \in DOMAIN units : units[i].st = "aggregated"

\* the last step logs the rows transferred and the rows of the target at
\* level INFO; the two numbers are not compared and the only warning of the
\* step is the one about failed batches (failed temporary tables)
count_warning(rows_transferred, target_rows) == FALSE

\* the history after the last step of a transfer
Verified(ok, rows_transferred, target_rows) ==
    [Noted(ok) EXCEPT !.count_warning = count_warning(rows_transferred, target_rows)]

(***************************************************************************)
(* Step 7 of the traditional transfer: count the target and return.        *)
(***************************************************************************)
VerifyDirect ==
    /\ pc = "dispatch"
    /\ cfg.mode = "direct"
    /\ AllAggregated
    /\ \E ok \in Calls(1) :
        /\ faults' = faults + Failed(ok)
        /\ hist' = Verified(ok, loc.processed_rows,
                            get_row_count(BagSize(target.rows), ok[1]))
        /\ result' = FullResult(loc.processed_rows,
                                get_row_count(BagSize(target.rows), ok[1]),
                                loc.successful_batches, loc.failed_batches)
    /\ pc' = "done"
    /\ UNCHANGED <<cfg, source, target, segs, loc, units>>

(***************************************************************************)
(* Step 4 of the split transfer, create_temp_tables_from_source: count the *)
(* source (no rows: no temporary table, the transfer returns at once),     *)
(* then create one temporary table per split.                              *)
(***************************************************************************)
SplitCount ==
    /\ pc = "split"
    /\ \E ok \in Calls(1) :
        LET total_rows == get_row_count(Len(source), ok[1]) IN
        /\ faults' = faults + Failed(ok)
        /\ hist' = FailedAt(Noted(ok), "split", Failed(ok) > 0)
        /\ loc' = [loc EXCEPT !.total_rows = total_rows, !.temp_table_names = <<>>,
                              !.split_num = 0, !.current_offset = 0]
        /\ IF total_rows = 0
           THEN pc' = "done" /\ result' = EmptyResult
           ELSE IF cfg.S = 0
           THEN Raise                                     \* ZeroDivisionError
           ELSE IF cfg.S < 0
           THEN pc' = "done" /\ result' = EmptyResult      \* range() is empty
           ELSE pc' = "create" /\ UNCHANGED result
    /\ UNCHANGED <<cfg, source, target, segs, units>>

next_offset_off_by_one(current_offset, limit) == current_offset + limit + 1

next_offset(current_offset, limit) == current_offset + limit

\* CREATE TABLE ... AS SELECT ... ORDER BY 1 LIMIT limit OFFSET offset
create_temp_table_from_source(table, df) ==
    [exists |-> TRUE, rows |-> df, keys |-> [r \in df |-> FirstCol(r)]]

AfterCreateStartsProcessing(split_num, splits) == "segment"

\* the for loop over range(NUMBER_OF_SPLITS) ends before the list is returned
AfterCreate(split_num, splits) == IF split_num + 1 < splits THEN "create" ELSE "segment"

\* actual_rows is counted after the creation and written to the log at level
\* INFO; it is not compared with limit and no warning is logged
size_warning(limit, actual_rows) == FALSE

CreateSegment ==
    /\ pc = "create"
    /\ LET temp_table_name == loc.split_num + 1
           limit == split_limit(loc.split_num, loc.total_rows, cfg.S)
       IN
       \E ok \in Calls(1) :
        /\ faults' = faults + Failed(ok)
        /\ IF ok[1] /\ ~segs[temp_table_name].exists
           THEN \E df \in read_range(SourceRows, loc.current_offset, limit) :
                /\ segs' = [segs EXCEPT ![temp_table_name] =
                                create_temp_table_from_source(@, df)]
                /\ loc' = [loc EXCEPT !.temp_table_names = Append(@, temp_table_name),
                                      !.current_offset = next_offset(@, limit),
                                      !.split_num = @ + 1,
                                      !.seg = 1,
                                      !.total_rows_transferred = 0,
                                      !.successful_temp_tables = 0,
                                      !.failed_temp_tables = 0]
                /\ pc' = AfterCreate(loc.split_num, cfg.S)
                /\ hist' = Mutated([Noted(ok) EXCEPT
                                !.size_warnings =
                                    IF size_warning(limit, Cardinality(df))
                                    THEN @ \cup {temp_table_name} ELSE @,
                                !.created = @ + 1,
                                !.splits = Append(@, [offset |-> loc.current_offset,
                                                      limit |-> limit,
                                                      rows |-> Cardinality(df)])])
           ELSE /\ loc' = [loc EXCEPT !.temp_table_names = Append(@, temp_table_name),
                                      !.dropped = 0]
                /\ pc' = "undo"
                /\ hist' = [FailedAt(Mutated(Noted(ok)), "split", TRUE) EXCEPT
                                !.create_failed = TRUE]
                /\ UNCHANGED segs
    /\ UNCHANGED <<cfg, source, target, units, result>>

(***************************************************************************)
(* cleanup_temp_tables: drop every name of the list; a failed drop is      *)
(* logged and the loop goes on.  It runs inside the splitter when a create *)
(* failed ("undo", after which the splitter raises) and after the last     *)
(* temporary table was processed ("cleanup").                              *)
(***************************************************************************)
drop_table_keeps_table(table, ok) == table

drop_table(table, ok) == IF ok THEN NoTable ELSE table

cleanup_step_stops_on_failure(l, ok) ==
    IF ok THEN [l EXCEPT !.dropped = @ + 1]
          ELSE [l EXCEPT !.dropped = Len(l.temp_table_names)]

\* the loop of cleanup_temp_tables goes on to the next name after every drop
cleanup_step(l, ok) == [l EXCEPT !.dropped = @ + 1]

\* what the orchestrator would return were it to return now
PendingResult(l) ==
    [success |-> l.failed_temp_tables = 0, rows_transferred |-> l.total_rows_transferred]

DropStep ==
    /\ pc \in {"undo", "cleanup"}
    /\ loc.dropped < Len(loc.temp_table_names)
    /\ \E ok \in Calls(1) :
        /\ faults' = faults + Failed(ok)
        /\ hist' = [Mutated(Noted(ok)) EXCEPT
                        !.drop_failed = @ \/ ~ok[1],
                        !.drop_attempts = @ + 1,
                        !.before_cleanup = IF loc.dropped = 0 THEN PendingResult(loc) ELSE @]
        /\ segs' = [segs EXCEPT ![loc.temp_table_names[loc.dropped + 1]] = drop_table(@, ok[1])]
        /\ loc' = cleanup_step(loc, ok[1])
    /\ UNCHANGED <<cfg, source, target, pc, units, result>>

UndoReturnsNames ==
    /\ pc = "undo"
    /\ loc.dropped = Len(loc.temp_table_names)
    /\ pc' = "segment"
    /\ loc' = [loc EXCEPT !.seg = 1, !.total_rows_transferred = 0,
                          !.successful_temp_tables = 0, !.failed_temp_tables = 0]
    /\ UNCHANGED <<cfg, source, target, segs, units, result, faults, hist>>

\* the splitter raises after its cleanup; the entry point returns the failure
UndoRaise ==
    /\ pc = "undo"
    /\ loc.dropped = Len(loc.temp_table_names)
    /\ Raise
    /\ UNCHANGED <<cfg, source, target, segs, loc, units, faults, hist>>

(***************************************************************************)
(* Step 5 of the split transfer: the temporary tables one after the other. *)
(* process_temp_table counts the table, returns at once when the count is  *)
(* 0, else plans its batches and submits them to a fresh pool.             *)
(***************************************************************************)
\* the orchestrator's loop body after process_temp_table returned
segment_done_stops_on_failure(l, success, rows_processed) ==
    IF success
    THEN [l EXCEPT !.total_rows_transferred = @ + rows_processed,
                   !.successful_temp_tables = @ + 1, !.seg = @ + 1]
    ELSE [l EXCEPT !.failed_temp_tables = @ + 1, !.seg = Len(l.temp_table_names) + 1]

segment_done(l, success, rows_processed) ==
    IF success
    THEN [l EXCEPT !.total_rows_transferred = @ + rows_processed,
                   !.successful_temp_tables = @ + 1, !.seg = @ + 1]
    ELSE [l EXCEPT !.failed_temp_tables = @ + 1, !.seg = @ + 1]

AfterSegmentSkipsCleanup(l) == IF l.seg <= Len(l.temp_table_names) THEN "segment" ELSE "done"

AfterSegment(l) == IF l.seg <= Len(l.temp_table_names) THEN "segment" ELSE "cleanup"

\* hist.seg_results: what process_temp_table returned, one entry per call
SegResult(success, rows_processed) == [success |-> success, rows_processed |-> rows_processed]

StartSegment ==
    /\ pc = "segment"
    /\ LET temp_table_name == loc.temp_table_names[loc.seg] IN
       \E ok \in Calls(1) :
        LET temp_table_rows ==
                get_row_count(Cardinality(segs[temp_table_name].rows),
                              ok[1] /\ segs[temp_table_name].exists)
            l == [loc EXCEPT !.temp_table_rows = temp_table_rows, !.processed_rows = 0, !.successful_batches = 0,
                             !.failed_batches = 0, !.dropped = 0]
        IN
        /\ faults' = faults + Failed(ok)
        /\ IF temp_table_rows = 0
           THEN /\ loc' = segment_done(l, TRUE, 0)
                /\ pc' = AfterSegment(loc')
                /\ units' = <<>>
                /\ hist' = [Noted(ok) EXCEPT !.seg_started = @ + 1,
                                             !.seg_results = Append(@, SegResult(TRUE, 0))]
           ELSE IF cfg.B = 0 \/ cfg.W <= 0
           THEN \* caught by process_temp_table: the temporary table failed
                /\ loc' = segment_done(l, FALSE, 0)
                /\ pc' = AfterSegment(loc')
                /\ units' = <<>>
                /\ hist' = [Noted(ok) EXCEPT !.seg_started = @ + 1,
                                             !.seg_results = Append(@, SegResult(FALSE, 0))]
           ELSE /\ loc' = l
                /\ pc' = "dispatch"
                /\ units' = submit(temp_table_name, temp_table_rows, cfg.B)
                /\ hist' = [Noted(ok) EXCEPT !.dispatched = @ + Len(units'),
                                             !.seg_started = @ + 1]
    /\ UNCHANGED <<cfg, source, target, segs, result>>

FinishSegment ==
    /\ pc = "dispatch"
    /\ cfg.mode = "split"
    /\ AllAggregated
    /\ loc' = segment_done(loc, loc.failed_batches = 0, loc.processed_rows)
    /\ pc' = AfterSegment(loc')
    /\ units' = <<>>
    /\ hist' = [hist EXCEPT !.seg_results =
                    Append(@, SegResult(loc.failed_batches = 0, loc.processed_rows))]
    /\ UNCHANGED <<cfg, source, target, segs, result, faults>>

(***************************************************************************)
(* Steps 6 and 7 of the split transfer: after the cleanup, count the       *)
(* target and return.                                                      *)
(***************************************************************************)
VerifySplit ==
    /\ pc = "cleanup"
    /\ loc.dropped = Len(loc.temp_table_names)
    /\ \E ok \in Calls(1) :
        /\ faults' = faults + Failed(ok)
        /\ hist' = Verified(ok, loc.total_rows_transferred,
                            get_row_count(BagSize(target.rows), ok[1]))
        /\ result' = FullResult(loc.total_rows_transferred,
                                get_row_count(BagSize(target.rows), ok[1]),
                                loc.successful_temp_tables, loc.failed_temp_tables)
    /\ pc' = "done"
    /\ UNCHANGED <<cfg, source, target, segs, loc, units>>

(***************************************************************************)
(* The transfer is run again (the scheduler of main.py), with the same     *)
(* configuration, on the tables as the run before left them.               *)
(***************************************************************************)
NextRun ==
    /\ pc \in {"done", "failed"}
    /\ hist.run = 1
    /\ pc' = "validate"
    /\ loc' = LocInit
    /\ units' = <<>>
    /\ result' = NoResult
    /\ hist' = [HistInit EXCEPT !.run = 2, !.prev = result,
                                        !.prev_clean = hist.clean]
    /\ UNCHANGED <<cfg, source, target, segs, faults>>

Next ==
    \/ Validate
    \/ FetchSchema
    \/ PrepareTarget
    \/ Truncate
    \/ CountDirect
    \/ \E i \in DOMAIN units : ExtractStep(i)
    \/ \E i \in DOMAIN units : LoadStep(i)
    \/ \E i \in DOMAIN units : Aggregate(i)
    \/ VerifyDirect
    \/ SplitCount
    \/ CreateSegment
    \/ DropStep
    \/ UndoRaise
    \/ StartSegment
    \/ FinishSegment
    \/ VerifySplit

Spec == Init /\ [][Next]_vars

(***************************************************************************)
(* Two runs in succession without the drop flag.                           *)
(***************************************************************************)
InitTwice == Init /\ ~cfg.drop

NextTwice ==
    \/ Next
    \/ NextRun

SpecUnchecked == InitUnchecked /\ [][Next]_vars

(***************************************************************************)
(* incremental_transfer: count the source rows the date predicate selects; *)
(* return at once when the count is 0, else call transfer_data without the *)
(* drop flag.  The rows selected are an input; cfg.drop before the call    *)
(* stands for no argument yet.                                             *)
(***************************************************************************)
never_short_circuit(new_rows) == FALSE

short_circuit(new_rows) == new_rows = 0

transfer_data_with_drop(c) == [c EXCEPT !.drop = TRUE]

\* self.transfer_data(drop_target_if_exists=False)
transfer_data_without_drop(c) == [c EXCEPT !.drop = FALSE]

IncrementalCount ==
    /\ pc = "incremental"
    /\ \E selected \in 0..Len(source), ok \in Calls(1) :
        LET new_rows == get_row_count(selected, ok[1]) IN
        /\ faults' = faults + Failed(ok)
        /\ hist' = [Noted(ok) EXCEPT !.incremental = TRUE, !.selected = selected > 0]
        /\ IF short_circuit(new_rows)
           THEN pc' = "done" /\ result' = EmptyResult /\ UNCHANGED cfg
           ELSE pc' = "validate" /\ cfg' = transfer_data_without_drop(cfg) /\ UNCHANGED result
    /\ UNCHANGED <<source, target, segs, loc, units>>

InitIncremental ==
    /\ cfg \in Configs
    /\ source \in Sources
    /\ target \in Targets
    /\ segs = [k \in 1..MaxSplits |-> NoTable]
    /\ pc = "incremental"
    /\ loc = LocInit
    /\ units = <<>>
    /\ result = NoResult
    /\ faults = 0
    /\ hist = HistInit

NextIncremental ==
    \/ IncrementalCount
    \/ Next

SpecIncremental == InitIncremental /\ [][NextIncremental]_vars

(***************************************************************************)
(* The source is a live table: extract_batch reads it with one query per   *)
(* batch and no snapshot, so another session may delete a row between the  *)
(* count and a read.  Here the row with the greatest first-column value is *)
(* deleted, once, while the batches of a traditional transfer run.         *)
(***************************************************************************)
SourceDelete ==
    /\ pc = "dispatch"
    /\ cfg.mode = "direct"
    /\ Len(source) > 0
    /\ Len(source) = loc.total_rows
    /\ source' = SubSeq(source, 1, Len(source) - 1)
    /\ UNCHANGED <<cfg, target, segs, pc, loc, units, result, faults, hist>>

InitDirect == Init /\ cfg.mode = "direct"

NextDirect ==
    \/ Validate
    \/ FetchSchema
    \/ PrepareTarget
    \/ Truncate
    \/ CountDirect
    \/ \E i \in DOMAIN units : ExtractStep(i)
    \/ \E i \in DOMAIN units : LoadStep(i)
    \/ \E i \in DOMAIN units : Aggregate(i)
    \/ VerifyDirect
    \/ SourceDelete

SpecShrink == InitDirect /\ [][NextDirect]_vars

(***************************************************************************)
(* Other sessions insert, update and delete rows of the source table while *)
(* a split transfer creates and reads its temporary tables.  An inserted   *)
(* row gets the next row number, an update changes the first column of a   *)
(* row, a delete removes the row with the greatest row number.  The first  *)
(* column written is the least or the greatest value: the row goes to the  *)
(* front or to the back of the order.                                      *)
(***************************************************************************)
Keys == {1, MaxRows}

Writable ==
    /\ cfg.mode = "split"
    /\ pc \in {"create", "segment", "dispatch"}
    /\ hist.writes < MaxWrites

SourceInsertRow ==
    /\ Writable
    /\ Len(source) < MaxRows
    /\ \E k \in Keys : source' = Append(source, k)
    /\ hist' = [hist EXCEPT !.writes = @ + 1]
    /\ UNCHANGED <<cfg, target, segs, pc, loc, units, result, faults>>

SourceUpdateRow ==
    /\ Writable
    /\ \E r \in SourceRows, k \in Keys :
        /\ k # source[r]
        /\ source' = [source EXCEPT ![r] = k]
    /\ hist' = [hist EXCEPT !.writes = @ + 1]
    /\ UNCHANGED <<cfg, target, segs, pc, loc, units, result, faults>>

SourceDeleteRow ==
    /\ Writable
    /\ Len(source) > 0
    /\ source' = SubSeq(source, 1, Len(source) - 1)
    /\ hist' = [hist EXCEPT !.writes = @ + 1]
    /\ UNCHANGED <<cfg, target, segs, pc, loc, units, result, faults>>

\* split transfers without the drop flag in which no storage call fails
InitWriters ==
    /\ cfg \in Configs
    /\ cfg.mode = "split"
    /\ ~cfg.drop
    /\ source \in Sources
    /\ target \in Targets
    /\ segs = [k \in 1..MaxSplits |-> NoTable]
    /\ pc = "validate"
    /\ loc = LocInit
    /\ units = <<>>
    /\ result = NoResult
    /\ faults = MaxFaults
    /\ hist = HistInit

NextWriters ==
    \/ Validate
    \/ FetchSchema
    \/ PrepareTarget
    \/ Truncate
    \/ SplitCount
    \/ CreateSegment
    \/ DropStep
    \/ StartSegment
    \/ \E i \in DOMAIN units : ExtractStep(i)
    \/ \E i \in DOMAIN units : LoadStep(i)
    \/ \E i \in DOMAIN units : Aggregate(i)
    \/ FinishSegment
    \/ VerifySplit
    \/ SourceInsertRow
    \/ SourceUpdateRow
    \/ SourceDeleteRow

SpecWriters == InitWriters /\ [][NextWriters]_vars

SpecTwice == InitTwice /\ [][NextTwice]_vars

(***************************************************************************)
(* Properties.                                                             *)
(***************************************************************************)
\* the row count the current pool's windows were planned from
PlannedRows == IF cfg.mode = "direct" THEN loc.total_rows ELSE loc.temp_table_rows

UnitWindows == [i \in DOMAIN units |-> [offset |-> units[i].offset, limit |-> units[i].limit]]

\* the ranges ws lie in [0, n), every position of [0, n) is in exactly one, the limits sum to n
Covers(ws, n) ==
    /\ \A i \in DOMAIN ws : ws[i].offset >= 0 /\ ws[i].limit >= 0 /\ ws[i].offset + ws[i].limit <= n
    /\ \A x \in 0..(n - 1) :
        Cardinality({ i \in DOMAIN ws : ws[i].offset <= x /\ x < ws[i].offset + ws[i].limit }) = 1
    /\ SumSeq([i \in DOMAIN ws |-> ws[i].limit]) = n

Ceil(n, b) == CHOOSE k \in 0..n : k * b >= n /\ (k = 0 \/ (k - 1) * b < n)

DistinctKeys == \A i, j \in SourceRows : i # j => source[i] # source[j]

SourceBag == [r \in TargetIds |-> IF r \in SourceRows THEN 1 ELSE 0]

\* C1: the windows dispatched by the direct-mode planner and by the per-segment
\* planner partition [0, totalRows) exactly: window i starts at i * batchSize, no
\* gap, no overlap, and the limits sum to totalRows; for totalRows = 0 there is
\* no window.
C1_WindowsPartition ==
    /\ pc = "dispatch" =>
        /\ Covers(UnitWindows, PlannedRows)
        /\ \A i \in DOMAIN units : units[i].offset = (i - 1) * cfg.B
    /\ \A b \in BatchSizes : plan(0, b) = <<>>
    /\ Len(source) = 0 => units = <<>>

C1_Witness ==
    /\ pc = "dispatch"
    /\ Len(units) >= 2
    /\ units[Len(units)].limit < cfg.B

\* C2: for totalRows >= 1 the planner produces exactly ceil(totalRows / batchSize)
\* windows, every window but the last has limit batchSize, and the last window's
\* limit lies in 1..batchSize.
C2_WindowCount ==
    pc = "dispatch" =>
        /\ PlannedRows >= 1
        /\ Len(units) = Ceil(PlannedRows, cfg.B)
        /\ \A i \in 1..(Len(units) - 1) : units[i].limit = cfg.B
        /\ units[Len(units)].limit \in 1..cfg.B

C2_Witness ==
    /\ pc = "dispatch"
    /\ Len(units) >= 2
    /\ PlannedRows % cfg.B = 0

\* C3: the segment sizes computed by the table splitter are base = totalRows div
\* numSplits or base + 1, exactly the first totalRows mod numSplits segments have
\* size base + 1, and the sizes of all numSplits segments sum to totalRows.
C3_SegmentSizes ==
    LET n == loc.total_rows
        base == n \div cfg.S
        rem == n % cfg.S
        sp == hist.splits
    IN  /\ \A i \in DOMAIN sp : sp[i].limit = (IF i <= rem THEN base + 1 ELSE base)
        /\ Len(sp) = cfg.S =>
            /\ SumSeq([i \in DOMAIN sp |-> sp[i].limit]) = n
            /\ Cardinality({ i \in DOMAIN sp : sp[i].limit = base + 1 }) = rem

C3_Witness ==
    /\ Len(hist.splits) = cfg.S
    /\ cfg.S >= 2
    /\ loc.total_rows % cfg.S # 0

\* C4: the offset of segment i is the sum of the sizes of the segments before it,
\* so the ranges of the segments are pairwise disjoint and their union is
\* [0, totalRows).
C4_SegmentOffsets ==
    LET sp == hist.splits IN
    /\ \A i \in DOMAIN sp : sp[i].offset = SumSeq([j \in 1..(i - 1) |-> sp[j].limit])
    /\ \A i \in 1..(Len(sp) - 1) : sp[i].offset <= sp[i + 1].offset
    /\ Len(sp) = cfg.S => Covers(sp, loc.total_rows)

C4_Witness ==
    /\ Len(hist.splits) = cfg.S
    /\ cfg.S >= 2
    /\ hist.splits[2].offset > 0
    /\ hist.splits[2].limit > 0

C6_PartialFailureIsolation ==
    (pc = "done" /\ result.kind = "full") =>
        /\ hist.finished = hist.dispatched
        /\ result.rows_transferred = hist.ok_rows
        /\ hist.units_failed > 0 => ~result.success

\* C7: a transfer that returns without a fatal error has success true if and only
\* if no dispatched unit failed.
C7_SuccessIffNoFailedUnit ==
    pc = "done" => (result.success <=> hist.units_failed = 0)

C7_Witness ==
    /\ pc = "done"
    /\ cfg.mode = "split"
    /\ hist.units_failed > 0
    /\ hist.ok_rows > 0

\* C8: if the probe of the source or of the target failed, the transfer has ended
\* with a failure result, nothing was created, dropped, truncated or written, no
\* segment was created and no unit was dispatched.
C8_ProbeFailureBeforeMutation ==
    (~loc.source_ok \/ ~loc.target_ok) =>
        /\ pc = "failed"
        /\ result = FatalResult
        /\ ~hist.mutated
        /\ target \in Targets
        /\ \A k \in DOMAIN segs : segs[k] = NoTable
        /\ hist.created = 0
        /\ hist.dispatched = 0
        /\ units = <<>>

C8_Witness ==
    /\ loc.source_ok
    /\ ~loc.target_ok
    /\ pc = "failed"

\* C9: over an empty source no unit is dispatched and no segment is created; a
\* transfer that returns without a fatal error returns success with 0 rows
\* transferred, and a transfer in which no storage call failed does return so.
C9_EmptySource ==
    Len(source) = 0 =>
        /\ hist.dispatched = 0
        /\ hist.created = 0
        /\ units = <<>>
        /\ pc = "done" => result.success /\ result.rows_transferred = 0
        /\ (pc \in {"done", "failed"} /\ hist.clean) => pc = "done"

C9_Witness ==
    /\ Len(source) = 0
    /\ cfg.mode = "split"
    /\ pc = "done"
    /\ result.success

\* C10: when the transfer is run twice without the drop flag over the same source
\* and no storage call fails in either run, the second result's target_rows
\* equals the first's.
C10_Idempotent ==
    (hist.run = 2 /\ pc = "done" /\ ~cfg.drop /\ hist.clean /\ hist.prev_clean) =>
        result.target_rows = hist.prev.target_rows

C10_Witness ==
    /\ hist.run = 2 /\ pc = "done" /\ ~cfg.drop /\ hist.clean /\ hist.prev_clean
    /\ Len(source) >= 2
    /\ result.target_rows = Len(source)
    /\ hist.prev.target_rows = Len(source)

\* C11: without the drop flag the target is truncated before any unit is
\* dispatched: once units are dispatched the target holds no earlier row and
\* exactly the rows the units of this run have written (none at the moment of
\* dispatch), and a failed truncate ends the run with no unit dispatched.
C11_TruncateBeforeDispatch ==
    ~cfg.drop =>
        /\ hist.dispatched > 0 =>
              /\ hist.failed_step = "none"
              /\ target.exists
              /\ \A r \in StaleRows : target.rows[r] = 0
              /\ BagSize(target.rows) = hist.ok_rows
        /\ hist.failed_step = "truncate" =>
              /\ pc = "failed"
              /\ result = FatalResult
              /\ hist.dispatched = 0
              /\ units = <<>>

C11_Witness ==
    /\ ~cfg.drop
    /\ hist.run = 2
    /\ hist.prev.target_rows > 0
    /\ pc = "dispatch"
    /\ Len(units) >= 2
    /\ \A i \in DOMAIN units : units[i].st = "queued"
    /\ BagSize(target.rows) = 0

\* C12: with the drop flag the target is destroyed and recreated: once units are
\* dispatched the target holds none of the rows it held before the run, only
\* the rows the units of this run have written.
C12_FreshTargetOnDrop ==
    (cfg.drop /\ hist.dispatched > 0) =>
        /\ target.exists
        /\ \A r \in StaleRows : target.rows[r] = 0
        /\ BagSize(target.rows) = hist.ok_rows

\* C13: when a split transfer has ended, with a success result, with failed
\* units or with the error of a failed segment creation, and no drop of its
\* cleanup failed, none of the temporary tables it created exists any more.
C13_NoSegmentRemains ==
    (cfg.mode = "split" /\ pc \in {"done", "failed"} /\ ~hist.drop_failed) =>
        \A k \in DOMAIN segs : ~segs[k].exists

C13_Witness ==
    /\ cfg.mode = "split"
    /\ pc = "done"
    /\ hist.created = 2
    /\ hist.drop_attempts = 2
    /\ hist.units_failed > 0
    /\ ~hist.drop_failed
    /\ \A k \in DOMAIN segs : ~segs[k].exists

\* C14: a drop that fails during the cleanup after the temporary tables were
\* processed does not end the cleanup and does not change the result: every
\* name of the list is attempted, and the success flag and rows_transferred
\* returned are those the run had reached before the cleanup began.
C14_CleanupFailureHarmless ==
    (cfg.mode = "split" /\ pc = "done" /\ result.kind = "full") =>
        /\ hist.drop_attempts = Len(loc.temp_table_names)
        /\ hist.drop_attempts = hist.created
        /\ result.success = hist.before_cleanup.success
        /\ result.rows_transferred = hist.before_cleanup.rows_transferred
        /\ result.success <=> hist.units_failed = 0

C14_Witness ==
    /\ cfg.mode = "split"
    /\ pc = "done"
    /\ hist.drop_failed
    /\ segs[1].exists
    /\ ~segs[2].exists
    /\ hist.drop_attempts = 2
    /\ result.success
    /\ result.rows_transferred = Len(source)

\* C15: once the creation of a temporary table has failed, no further
\* temporary table is created and no unit is dispatched, the run goes through
\* the cleanup of the names so far and ends with a failure result, and when
\* no drop of that cleanup failed no temporary table is left.
C15_CreateFailureUndone ==
    hist.create_failed =>
        /\ pc \in {"undo", "failed"}
        /\ hist.created = Len(loc.temp_table_names) - 1
        /\ hist.dispatched = 0
        /\ units = <<>>
        /\ pc = "failed" =>
              /\ result = FatalResult
              /\ ~result.success
              /\ hist.drop_attempts = Len(loc.temp_table_names)
              /\ ~hist.drop_failed => \A k \in DOMAIN segs : ~segs[k].exists

C15_Witness ==
    /\ hist.create_failed
    /\ pc = "failed"
    /\ hist.created = 1
    /\ hist.drop_attempts = 2
    /\ \A k \in DOMAIN segs : ~segs[k].exists

\* C16: with a batch size of 0 or less the transfer never starts: the target is
\* not created, dropped, truncated or written, no unit is dispatched and no
\* success result is returned.
C16_BadBatchSizeFailsFast ==
    cfg.B <= 0 =>
        /\ ~hist.mutated
        /\ hist.dispatched = 0
        /\ pc = "done" => ~result.success

\* C17: with a number of splits of 0 or less the split transfer never starts:
\* the target is not created, dropped, truncated or written, no temporary table
\* is created and no success result is returned.
C17_BadSplitCountFailsFast ==
    (cfg.mode = "split" /\ cfg.S <= 0) =>
        /\ ~hist.mutated
        /\ hist.created = 0
        /\ pc = "done" => ~result.success

\* C18: a unit whose read or write failed ends with an outcome of success
\* false and a non-empty error; the failure of a unit never becomes a fatal
\* error of the run, and the run returns only after every dispatched unit has
\* finished.
C18_WorkerContainsFailure ==
    /\ \A i \in DOMAIN units :
          units[i].fault # "none" =>
              /\ units[i].st \in {"finished", "aggregated"}
              /\ ~units[i].success
              /\ units[i].error # "none"
    /\ hist.units_failed > 0 => pc # "failed"
    /\ (pc = "done" /\ result.kind = "full") => hist.finished = hist.dispatched

C18_Witness ==
    /\ pc = "done"
    /\ Len(units) >= 2
    /\ units[1].fault = "write"
    /\ units[1].error = "Load failed"
    /\ units[2].success
    /\ units[2].rows_processed > 0
    /\ hist.finished = hist.dispatched

\* C19: a unit whose read succeeded and returned no rows ends with success
\* true, rows_processed 0 and no error, without a load call, and the
\* orchestrator counts it among the successful units.
EmptyReads ==
    { i \in DOMAIN units : /\ units[i].st \in {"finished", "aggregated"}
                           /\ units[i].fault = "none"
                           /\ units[i].df = {} }

C19_EmptyReadSucceeds ==
    /\ \A i \in EmptyReads :
          /\ units[i].success
          /\ units[i].rows_processed = 0
          /\ units[i].error = "none"
    /\ hist.load_calls =
          Cardinality({ i \in DOMAIN units : units[i].df # {} /\ units[i].st # "loading" })
    /\ (pc = "done" /\ result.kind = "full") =>
          /\ result.processed = Cardinality({ i \in DOMAIN units : units[i].success })
          /\ EmptyReads \subseteq { i \in DOMAIN units : units[i].st = "aggregated" }

C19_Witness ==
    /\ pc = "done"
    /\ EmptyReads # {}
    /\ Len(units) >= 2
    /\ result.success
    /\ result.processed = Len(units)
    /\ result.rows_transferred = Len(source)

\* C20: when a storage call has failed during connection validation, schema
\* retrieval, target preparation (create, drop or truncate) or source
\* splitting, the run is on its way to a failure result: no unit is
\* dispatched, and once it has ended it has returned a failure result and,
\* when no drop failed, no temporary table is left.
C20_SetupFailureIsFatal ==
    hist.failed_step # "none" =>
        /\ pc \in {"undo", "failed"}
        /\ hist.dispatched = 0
        /\ units = <<>>
        /\ pc = "failed" =>
              /\ result = FatalResult
              /\ ~hist.drop_failed => \A k \in DOMAIN segs : ~segs[k].exists

\* C21: in direct mode and in split mode the number of units a worker has
\* started and not finished is never more than MAX_WORKERS.
C21_BoundedConcurrency ==
    Cardinality(Running) <= cfg.W

C21_Witness ==
    /\ cfg.mode = "split"
    /\ cfg.W < Len(units)
    /\ Cardinality(Running) = cfg.W
    /\ Queued # {}

\* C22: in split mode the temporary tables are processed one at a time in
\* creation order: the units in the pool all read the temporary table the
\* orchestrator's loop is at, and when the loop turns to a temporary table
\* every unit dispatched before has finished.
C22_SegmentsSequential ==
    cfg.mode = "split" =>
        /\ \A i \in DOMAIN units :
              /\ loc.seg \in DOMAIN loc.temp_table_names
              /\ loc.temp_table_names[loc.seg] = loc.seg
              /\ units[i].table = loc.seg
        /\ hist.dispatched - hist.finished =
              Cardinality({ i \in DOMAIN units : units[i].st \in {"queued", "loading"} })
        /\ pc = "segment" => hist.finished = hist.dispatched

C22_Witness ==
    /\ cfg.mode = "split"
    /\ pc = "dispatch"
    /\ loc.seg = 2
    /\ units # <<>>
    /\ \A i \in DOMAIN units : units[i].st = "queued"
    /\ hist.finished >= 2
    /\ hist.finished = hist.dispatched - Len(units)

\* C23: nothing is cancelled: a run that returns a full result has finished
\* every unit it dispatched, also when units failed, and in split mode it has
\* processed every temporary table it created, also when one of them failed.
C23_NoCancellation ==
    (pc = "done" /\ result.kind = "full") =>
        /\ hist.finished = hist.dispatched
        /\ cfg.mode = "direct" =>
              /\ Len(units) = hist.dispatched
              /\ \A i \in DOMAIN units : units[i].st = "aggregated"
        /\ cfg.mode = "split" =>
              /\ hist.seg_started = hist.created
              /\ result.processed + result.failed = hist.created

\* the first temporary table (2 rows) failed and the second (1 row) was loaded
C23_Witness ==
    /\ pc = "done"
    /\ cfg.mode = "split"
    /\ Len(source) = 3
    /\ hist.created = 2
    /\ hist.units_failed = 1
    /\ result.failed = 1
    /\ result.processed = 1
    /\ result.rows_transferred = 1
    /\ hist.finished = hist.dispatched

\* C24: every outcome is added to the counters exactly once: while the units of
\* a table are aggregated the counters equal the numbers of aggregated
\* successful and failed units and the rows of the successful ones, and a
\* direct run that returns a full result reports succeeded + failed equal to
\* the number of units dispatched.
Aggregated == { i \in DOMAIN units : units[i].st = "aggregated" }

C24_NoLostUpdate ==
    /\ pc = "dispatch" =>
          /\ loc.successful_batches = Cardinality({ i \in Aggregated : units[i].success })
          /\ loc.failed_batches = Cardinality({ i \in Aggregated : ~units[i].success })
          /\ loc.processed_rows =
                SumSeq([i \in DOMAIN units |->
                          IF i \in Aggregated /\ units[i].success
                          THEN units[i].rows_processed ELSE 0])
    /\ (cfg.mode = "direct" /\ pc = "done" /\ result.kind = "full") =>
          /\ result.processed + result.failed = hist.dispatched
          /\ result.failed = hist.units_failed
          /\ result.rows_transferred = hist.ok_rows

C24_Witness ==
    /\ cfg.mode = "direct"
    /\ pc = "done"
    /\ hist.dispatched = 3
    /\ result.processed = 2
    /\ result.failed = 1
    /\ ~units[1].success

\* The order of the steps of transfer_data_with_splitting: each pair is a step
\* and a step that may follow it when nothing raises.
SplitOrder ==
    { <<"validate", "schema">>, <<"schema", "prepare">>,
      <<"prepare", "truncate">>, <<"prepare", "split">>, <<"truncate", "split">>,
      <<"split", "create">>, <<"split", "done">>,
      <<"create", "segment">>,
      <<"segment", "dispatch">>, <<"segment", "cleanup">>,
      <<"dispatch", "segment">>, <<"dispatch", "cleanup">>,
      <<"cleanup", "done">> }

\* C25 as stated: in a split run in which no creation failed, the final row
\* count of the target has been read before the first temporary table is
\* dropped.
C25_VerifyBeforeCleanup ==
    (cfg.mode = "split" /\ ~hist.create_failed /\ hist.drop_attempts > 0) =>
        result.kind = "full"

\* C25, amended: a split run that does not fail goes through validation,
\* schema fetch, target preparation, source splitting, dispatch and
\* aggregation per temporary table, then the cleanup of the temporary tables,
\* and only after every drop was attempted reads the final row count of the
\* target and returns.
C25_CleanupBeforeVerify ==
    /\ [][(cfg.mode = "split" /\ pc' # pc /\ pc' \notin {"undo", "failed"})
            => <<pc, pc'>> \in SplitOrder]_vars
    /\ [](cfg.mode = "split" /\ result.kind = "full" =>
            /\ pc = "done"
            /\ hist.created >= 1
            /\ hist.seg_started = hist.created
            /\ hist.finished = hist.dispatched
            /\ hist.drop_attempts = hist.created)

C25_Witness ==
    /\ cfg.mode = "split"
    /\ ~cfg.drop
    /\ pc = "done"
    /\ result.kind = "full"
    /\ result.success
    /\ hist.dispatched >= 2
    /\ hist.drop_attempts = 2
    /\ result.target_rows = Len(source)

\* C26: in split mode, while temporary tables are still being created no unit
\* exists and no load was called, and once a temporary table is processed, a
\* unit dispatched or a load called, all NUMBER_OF_SPLITS temporary tables have
\* been created.
C26_AllSegmentsBeforeExtraction ==
    cfg.mode = "split" =>
        /\ pc \in {"split", "create", "undo"} =>
              /\ units = <<>>
              /\ hist.dispatched = 0
              /\ hist.load_calls = 0
              /\ hist.seg_started = 0
        /\ (hist.seg_started > 0 \/ hist.dispatched > 0 \/ hist.load_calls > 0) =>
              /\ hist.created = cfg.S
              /\ Len(loc.temp_table_names) = cfg.S

C26_Witness ==
    /\ cfg.mode = "split"
    /\ cfg.S = 2
    /\ pc = "dispatch"
    /\ loc.seg = 1
    /\ units # <<>>
    /\ \A i \in DOMAIN units : units[i].st = "queued"
    /\ hist.load_calls = 0
    /\ segs[1].exists /\ segs[2].exists

\* the units of the temporary table being processed have all read, none failed to
SegmentRead ==
    /\ cfg.mode = "split"
    /\ pc = "dispatch"
    /\ units # <<>>
    /\ \A i \in DOMAIN units : units[i].st # "queued" /\ units[i].fault # "read"

SegmentKeysDistinct ==
    \A r1, r2 \in segs[loc.seg].rows :
        r1 # r2 => segs[loc.seg].keys[r1] # segs[loc.seg].keys[r2]

C28_IncrementalShortCircuit ==
    (hist.incremental /\ ~hist.selected) =>
        /\ pc = "done"
        /\ result = EmptyResult
        /\ result.success /\ result.rows_transferred = 0
        /\ loc = LocInit
        /\ target \in Targets
        /\ ~hist.mutated
        /\ hist.failed_step = "none"
        /\ hist.created = 0
        /\ hist.dispatched = 0
        /\ units = <<>>
        /\ \A k \in DOMAIN segs : segs[k] = NoTable

C28_Witness ==
    /\ hist.incremental
    /\ ~hist.selected
    /\ hist.clean
    /\ Len(source) >= 1
    /\ pc = "done"
    /\ result.success
    /\ \A r \in StaleRows : target.rows[r] = 1

\* the steps of the table-splitting path
SplitPath == {"split", "create", "undo", "segment", "cleanup"}

\* C29 as stated: an incremental transfer whose predicate selects a row runs
\* the direct transfer: it never takes the table-splitting path, and it never
\* drops the target.
C29_IncrementalIsDirect ==
    (hist.incremental /\ hist.selected) =>
        /\ pc \notin SplitPath
        /\ hist.created = 0
        /\ ~hist.target_dropped

\* C29, amended: an incremental transfer whose predicate selects a row calls
\* transfer_data without the drop flag: the transfer takes the table-splitting
\* path exactly when table splitting is enabled, and it never drops the target
\* (it truncates it before units are dispatched).
C29_IncrementalWithoutDrop ==
    (hist.incremental /\ hist.selected) =>
        /\ (pc # "done" \/ hist.mutated) => ~cfg.drop
        /\ ~hist.target_dropped
        /\ pc \in SplitPath => cfg.mode = "split"
        /\ hist.created > 0 => cfg.mode = "split"
        /\ pc = "count" => cfg.mode = "direct"
        /\ hist.dispatched > 0 => \A r \in StaleRows : target.rows[r] = 0

C29_Witness ==
    /\ hist.incremental
    /\ hist.selected
    /\ cfg.mode = "split"
    /\ pc = "done"
    /\ result.kind = "full"
    /\ result.success
    /\ hist.created = 2
    /\ ~hist.target_dropped
    /\ result.target_rows = Len(source)

\* C30: for every temporary table created with a number of rows other than
\* the limit requested for it, a warning that the sizes differ was logged.
C30_SizeMismatchWarned ==
    \A k \in 1..hist.created :
        (segs[k].exists /\ Cardinality(segs[k].rows) # hist.splits[k].limit) =>
            k \in hist.size_warnings

\* C31: when a transfer returns a target row count that differs from the rows
\* it reports as transferred, a warning about the difference was logged.
C31_CountMismatchWarned ==
    (pc = "done" /\ result.kind = "full"
        /\ result.target_rows # result.rows_transferred) => hist.count_warning

(***************************************************************************)
(* main.py: main calls run_transfer once and leaves with sys.exit.         *)
(* run_transfer builds the ETLTransfer, calls incremental_transfer or      *)
(* transfer_data and returns the success entry of the result; an exception *)
(* of its own body (a missing Config attribute, the construction of the    *)
(* transfer) is caught and False is returned.                              *)
(***************************************************************************)
run_transfer_always_true(res) == TRUE

\* if result['success']: ... return True  else: ... return False
run_transfer(res) == res.success

\* if success: sys.exit(0)  else: sys.exit(1)
exit_status(success) == IF success THEN 0 ELSE 1

RunTransfer ==
    /\ pc = "main"
    /\ \E incremental \in BOOLEAN, raises \in BOOLEAN :
        IF raises
        THEN /\ pc' = "exited"
             /\ hist' = [hist EXCEPT !.exit_status = exit_status(FALSE)]
        ELSE /\ pc' = IF incremental THEN "incremental" ELSE "validate"
             /\ UNCHANGED hist
    /\ UNCHANGED <<cfg, source, target, segs, loc, units, result, faults>>

Exit ==
    /\ pc \in {"done", "failed"}
    /\ pc' = "exited"
    /\ hist' = [hist EXCEPT !.exit_status = exit_status(run_transfer(result))]
    /\ UNCHANGED <<cfg, source, target, segs, loc, units, result, faults>>

InitMain ==
    /\ cfg \in Configs
    /\ source \in Sources
    /\ target \in Targets
    /\ segs = [k \in 1..MaxSplits |-> NoTable]
    /\ pc = "main"
    /\ loc = LocInit
    /\ units = <<>>
    /\ result = NoResult
    /\ faults = 0
    /\ hist = HistInit

NextMain ==
    \/ RunTransfer
    \/ IncrementalCount
    \/ Next
    \/ Exit

SpecMain == InitMain /\ [][NextMain]_vars

\* C32: the process exits with status 0 exactly when the transfer returned a
\* result whose success entry is true, and with status 1 otherwise, also
\* when run_transfer caught an exception and no result was returned.
C32_ExitStatus ==
    pc = "exited" =>
        /\ hist.exit_status \in {0, 1}
        /\ hist.exit_status = 0 <=> (result.kind # "none" /\ result.success)

C32_Witness ==
    /\ pc = "exited"
    /\ result.kind = "full"
    /\ ~result.success
    /\ result.rows_transferred > 0
    /\ hist.exit_status = 1

\* the splitter has returned its list of temporary tables
SplitterReturned ==
    /\ cfg.mode = "split"
    /\ loc.total_rows >= 1
    /\ pc \in {"segment", "dispatch", "cleanup", "done"}

\* C33: the temporary tables are named <source table>_1, _2, ... in the order
\* of their creation; for a source of at least one row the splitter returns
\* exactly NUMBER_OF_SPLITS names; with fewer rows than splits the trailing
\* NUMBER_OF_SPLITS - total_rows tables are created with no row, and each is
\* processed as a successful temporary table of 0 rows.
C33_SegmentNames ==
    cfg.mode = "split" =>
        /\ \A i \in DOMAIN loc.temp_table_names : loc.temp_table_names[i] = i
        /\ SplitterReturned =>
            /\ Len(loc.temp_table_names) = cfg.S
            /\ hist.created = cfg.S
            /\ \A k \in (loc.total_rows + 1)..cfg.S :
                /\ hist.splits[k].limit = 0
                /\ segs[k].rows = {}
                /\ k <= Len(hist.seg_results) =>
                        hist.seg_results[k] = SegResult(TRUE, 0)

C33_Witness ==
    /\ SplitterReturned
    /\ pc = "done"
    /\ loc.total_rows = 1
    /\ cfg.S = 2
    /\ Len(hist.seg_results) = 2
    /\ hist.seg_results[1] = SegResult(TRUE, 1)
    /\ hist.seg_results[2] = SegResult(TRUE, 0)
    /\ result.success

(***************************************************************************)
(* A split transfer started while tables with the names of its temporary   *)
(* tables exist in the internal schema, left there by an earlier run that  *)
(* did not reach its cleanup.  The transfer does not look for such tables: *)
(* CREATE TABLE ... AS fails on a name that exists.                        *)
(***************************************************************************)
LeftoverTable == [exists |-> TRUE, rows |-> {}, keys |-> <<>>]

InitLeftover ==
    /\ cfg \in Configs
    /\ cfg.mode = "split"
    /\ source \in Sources
    /\ target \in Targets
    /\ \E L \in (SUBSET (1..MaxSplits)) \ {{}} :
        /\ segs = [k \in 1..MaxSplits |-> IF k \in L THEN LeftoverTable ELSE NoTable]
        /\ hist = [HistInit EXCEPT !.leftover = L]
    /\ pc = "validate"
    /\ loc = LocInit
    /\ units = <<>>
    /\ result = NoResult
    /\ faults = 0

NextLeftover ==
    \/ Validate
    \/ FetchSchema
    \/ PrepareTarget
    \/ Truncate
    \/ SplitCount
    \/ CreateSegment
    \/ DropStep
    \/ UndoRaise
    \/ StartSegment
    \/ \E i \in DOMAIN units : ExtractStep(i)
    \/ \E i \in DOMAIN units : LoadStep(i)
    \/ \E i \in DOMAIN units : Aggregate(i)
    \/ FinishSegment
    \/ VerifySplit

SpecLeftover == InitLeftover /\ [][NextLeftover]_vars

\* C34: a split transfer over a source of at least one row that started with
\* a table of one of its temporary-table names in the internal schema, and in
\* which no storage call failed for another reason, ends with a failure
\* raised by the splitter, and no table with one of its temporary-table names
\* exists when it has ended.
C34_LeftoverUndone ==
    (/\ hist.leftover \cap (1..cfg.S) # {}
     /\ Len(source) >= 1
     /\ hist.clean
     /\ pc \in {"done", "failed"}) =>
        /\ pc = "failed"
        /\ hist.failed_step = "split"
        /\ \A k \in 1..cfg.S : ~segs[k].exists

\* C35: a traditional transfer that returns success has transferred as many
\* rows as the source table holds.
C35_DirectSuccessMeansAllRows ==
    (cfg.mode = "direct" /\ pc = "done" /\ result.success) =>
        result.rows_transferred = Len(source)

\* C36: a split transfer that returns success has transferred as many rows as
\* the temporary tables it created held together.
C36_SplitSuccessMeansAllRows ==
    (cfg.mode = "split" /\ pc = "done" /\ result.success) =>
        result.rows_transferred =
            SumSeq([k \in DOMAIN hist.splits |-> hist.splits[k].rows])

\* C37: when a transfer returns its full result, the count of the target it
\* reports was read without error and the target holds no row from before the
\* run, the target row count reported equals the rows reported as
\* transferred, also when units failed.
C37_TargetRowsMatch ==
    (/\ pc = "done"
     /\ result.kind = "full"
     /\ result.target_rows = BagSize(target.rows)
     /\ \A r \in StaleRows : target.rows[r] = 0) =>
        result.target_rows = result.rows_transferred

(***************************************************************************)
(* Termination.  Every storage call returns and the pool runs every future *)
(* submitted to it, so a step that can be taken is taken at some time:     *)
(* weak fairness of the next-state relation.                               *)
(***************************************************************************)
SpecFair == Init /\ [][Next]_vars /\ WF_vars(Next)

Returned == pc \in {"done", "failed"}

\* a result is returned exactly when the transfer has ended
OneResult == Returned <=> result.kind # "none"

\* after the transfer has ended nothing changes: no result is returned a second
\* time, no unit is dispatched and the target is not written
Absorbing ==
    Returned =>
        /\ pc' = pc
        /\ result' = result
        /\ target' = target
        /\ units' = units
        /\ hist'.dispatched = hist.dispatched
        /\ hist'.load_calls = hist.load_calls

\* C38: every transfer with a positive batch size, worker count and number of
\* splits ends, in done or in failed, whatever the source holds and whichever
\* storage calls fail; it returns a result exactly when it has ended, and
\* once it has ended (in particular once it has failed) it returns no other
\* result, dispatches no unit and does not write to the target.
C38_Terminates ==
    /\ <>Returned
    /\ []OneResult
    /\ [][Absorbing]_vars

C38_Witness ==
    /\ pc = "failed"
    /\ result = FatalResult
    /\ hist.create_failed
    /\ hist.created >= 1
    /\ hist.mutated

====
